---- MODULE Spec2Model ----
(***************************************************************************)
(* Model of WorkflowMediatorService (raincatcher-workflow, mediator        *)
(* client): the status engine stepReview / checkStatus, the composite      *)
(* reads getResultByWorkorderId / getWorkorderSummary, and the topicUid    *)
(* carried by the mutating facade calls.                                   *)
(***************************************************************************)
EXTENDS Integers, Sequences, FiniteSets, TLC

(* ------------------------------ bounds --------------------------------- *)
MaxSteps == 3
MaxResults == 2
MaxCalls == 3

(* --------------------------- JS value domain --------------------------- *)
Undefined == "<undefined>"
Null == "<null>"
EmptyString == ""

\* CONSTANTS.STATUS of lib/constants
COMPLETE == "COMPLETE"
COMPLETE_DISPLAY == "COMPLETE_DISPLAY"
UNASSIGNED_DISPLAY == "UNASSIGNED_DISPLAY"
NEW_DISPLAY == "NEW_DISPLAY"
PENDING_DISPLAY == "PENDING_DISPLAY"

\* a step-result status other than CONSTANTS.STATUS.COMPLETE
PendingStatus == "pending"

Codes == {"a", "b"}

\* a value of result.stepResults[code]: no entry, or an entry {status: s}
NoEntry == Undefined
EntryVals == {NoEntry, COMPLETE, PendingStatus}

NoEntries == [c \in Codes |-> NoEntry]

\* result.stepResults: absent, an empty array [], or a plain object keyed by step code
StepResultsVals ==
    {[kind |-> k, entries |-> NoEntries] : k \in {"undefined", "array"}}
    \cup {[kind |-> "object", entries |-> e] : e \in [Codes -> EntryVals]}

\* result: absent (null) or {stepResults: ...}
Results ==
    {[kind |-> "null", stepResults |-> [kind |-> "undefined", entries |-> NoEntries]]}
    \cup {[kind |-> "object", stepResults |-> sr] : sr \in StepResultsVals}

\* workflow.steps: an ordered sequence of steps {code: c}
StepSeqs == UNION {[1..n -> Codes] : n \in 0..MaxSteps}

\* workorder.assignee
Assignees == {Undefined, EmptyString, "trever"}

\* JS truthiness of the values used here
Falsy(v) == v \in {Undefined, Null, EmptyString}

\* stepResults.length !== 0: an array has its element count as length (the only
\* array modelled is the empty one, length 0); a plain object keyed by step code
\* has no length (undefined, or the entry of a step called "length"), and
\* undefined !== 0 holds
LengthIsNotZero(sr) == IF sr.kind = "array" THEN FALSE ELSE TRUE

\* number of step-result entries of a result (0 when result or stepResults is absent)
EntryCount(r) ==
    IF r.kind = "null" \/ r.stepResults.kind # "object" THEN 0
    ELSE Cardinality({c \in Codes : r.stepResults.entries[c] # NoEntry})

(* ------------------------------ stepReview ----------------------------- *)
\* mutant: the status of an existing entry is not looked at
StepIncomplete_NoStatusCheck(step, r) ==
    Falsy(r.stepResults.entries[step])

\* predicate of _.findIndex: the step has no entry or its entry is not complete
StepIncomplete(step, r) ==
    \/ Falsy(r.stepResults.entries[step])
    \/ r.stepResults.entries[step] # COMPLETE

\* _.findIndex(steps, predicate): 0-based index of the first match, -1 when none
RECURSIVE findIndexFrom(_, _, _)
findIndexFrom(s, r, i) ==
    IF i > Len(s) THEN -1
    ELSE IF StepIncomplete(s[i], r) THEN i - 1
    ELSE findIndexFrom(s, r, i + 1)

\* mutant: the last incomplete step is reported instead of the first
findIndex_Last(s, r) ==
    LET incomplete == {i \in 1..Len(s) : StepIncomplete(s[i], r)}
    IN  IF incomplete = {} THEN -1
        ELSE (CHOOSE i \in incomplete : \A j \in incomplete : j <= i) - 1

findIndex(s, r) == findIndexFrom(s, r, 1)

\* the guard  result && result.stepResults && result.stepResults.length !== 0
HasStepResults(r) ==
    /\ r.kind # "null"
    /\ r.stepResults.kind # "undefined"
    /\ LengthIsNotZero(r.stepResults)

\* mutant: a completed workflow reports the last valid index instead of steps.length
stepReview_LastIndex(s, r) ==
    IF HasStepResults(r)
    THEN LET nextIncompleteStepIndex == findIndex(s, r)
         IN  IF nextIncompleteStepIndex = -1
             THEN [nextStepIndex |-> Len(s) - 1, complete |-> TRUE]
             ELSE [nextStepIndex |-> nextIncompleteStepIndex, complete |-> FALSE]
    ELSE [nextStepIndex |-> 0, complete |-> FALSE]

\* mutant: the -1 of findIndex is not replaced by steps.length
stepReview_KeepsMinusOne(s, r) ==
    IF HasStepResults(r)
    THEN LET nextIncompleteStepIndex == findIndex(s, r)
         IN  [nextStepIndex |-> nextIncompleteStepIndex,
              complete |-> (nextIncompleteStepIndex = -1)]
    ELSE [nextStepIndex |-> 0, complete |-> FALSE]

stepReview(s, r) ==
    IF HasStepResults(r)
    THEN LET nextIncompleteStepIndex == findIndex(s, r)
         IN  IF nextIncompleteStepIndex = -1
             THEN [nextStepIndex |-> Len(s), complete |-> TRUE]
             ELSE [nextStepIndex |-> nextIncompleteStepIndex, complete |-> FALSE]
    ELSE [nextStepIndex |-> 0, complete |-> FALSE]

(* ------------------------------ checkStatus ---------------------------- *)
\* mutant: the assignee is looked at before completion
checkStatus_AssigneeFirst(wo, wf, r) ==
    LET review == stepReview(wf.steps, r)
    IN  IF Falsy(wo.assignee) THEN UNASSIGNED_DISPLAY
        ELSE IF review.nextStepIndex >= Len(wf.steps) - 1 /\ review.complete
        THEN COMPLETE_DISPLAY
        ELSE IF review.nextStepIndex < 0 THEN NEW_DISPLAY
        ELSE PENDING_DISPLAY

\* mutant: reaching the last step counts as complete without the complete flag
checkStatus_NoCompleteFlag(wo, wf, r) ==
    LET review == stepReview(wf.steps, r)
    IN  IF review.nextStepIndex >= Len(wf.steps) - 1
        THEN COMPLETE_DISPLAY
        ELSE IF Falsy(wo.assignee) THEN UNASSIGNED_DISPLAY
        ELSE IF review.nextStepIndex < 0 THEN NEW_DISPLAY
        ELSE PENDING_DISPLAY

\* mutant: index 0 is taken for "not started"
checkStatus_NewAtZero(wo, wf, r) ==
    LET review == stepReview(wf.steps, r)
    IN  IF review.nextStepIndex >= Len(wf.steps) - 1 /\ review.complete
        THEN COMPLETE_DISPLAY
        ELSE IF Falsy(wo.assignee) THEN UNASSIGNED_DISPLAY
        ELSE IF review.nextStepIndex <= 0 THEN NEW_DISPLAY
        ELSE PENDING_DISPLAY

checkStatus(wo, wf, r) ==
    LET review == stepReview(wf.steps, r)
    IN  IF review.nextStepIndex >= Len(wf.steps) - 1 /\ review.complete
        THEN COMPLETE_DISPLAY
        ELSE IF Falsy(wo.assignee) THEN UNASSIGNED_DISPLAY
        ELSE IF review.nextStepIndex < 0 THEN NEW_DISPLAY
        ELSE PENDING_DISPLAY

(* ------------------------------- state --------------------------------- *)
VARIABLES
    workorder,      \* argument of checkStatus: {assignee}
    workflow,       \* argument of checkStatus / stepReview: {steps}
    result,         \* argument of checkStatus / stepReview
    reviewOut,      \* what the last stepReview call returned
    statusOut,      \* what the last checkStatus call returned
    call,           \* the composite read in progress: {op, workorderId}
    bus,            \* the requests published on the mediator so far, in order
    woP,            \* promise of readWorkorder(workorderId)
    wfP,            \* promise of read(workorder.workflowId)
    listP,          \* promise of listResults()
    lookupP,        \* promise of getResultByWorkorderId(workorderId)
    allP,           \* promise of q.all([...]) and its count of pending inputs
    outP,           \* the promise handed to the caller
    queue,          \* promise reactions waiting to run, first in first out
    settleOrder,    \* the inputs of q.all in the order they settled
    inflight,       \* the mutating facade calls whose promise is still pending
    settled,        \* the mutating facade calls whose promise was settled, and by whose request
    callCount,      \* number of mutating facade calls made so far
    nextUid         \* number of ids shortid has generated so far

reviewVars == <<workorder, workflow, result, reviewOut, statusOut>>
summaryVars == <<call, bus, woP, wfP, listP, lookupP, allP, outP, queue, settleOrder>>
callVars == <<inflight, settled, callCount, nextUid>>
vars == <<reviewVars, summaryVars, callVars>>

(* JS values that travel through the promises *)
UndefinedV == [t |-> "undefined"]
NullV == [t |-> "null"]
ErrorV(e) == [t |-> "error", e |-> e]
ArrayV(items) == [t |-> "array", items |-> items]

NoPromise == [state |-> "none", value |-> UndefinedV]
Pending == [state |-> "pending", value |-> UndefinedV]
Fulfilled(v) == [state |-> "fulfilled", value |-> v]
Rejected(v) == [state |-> "rejected", value |-> v]

NoCall == [op |-> "none", workorderId |-> Undefined]

IdleSummary ==
    /\ call = NoCall
    /\ bus = <<>>
    /\ woP = NoPromise
    /\ wfP = NoPromise
    /\ listP = NoPromise
    /\ lookupP = NoPromise
    /\ allP = [state |-> "none", value |-> UndefinedV, pendingCount |-> 0]
    /\ outP = NoPromise
    /\ queue = <<>>
    /\ settleOrder = <<>>

IdleCalls ==
    /\ inflight = {}
    /\ settled = {}
    /\ callCount = 0
    /\ nextUid = 0

IdleReview ==
    /\ workorder = [assignee |-> Undefined]
    /\ workflow = [steps |-> <<>>]
    /\ result = [kind |-> "null", stepResults |-> [kind |-> "undefined", entries |-> NoEntries]]
    /\ reviewOut = [called |-> FALSE, nextStepIndex |-> 0, complete |-> FALSE]
    /\ statusOut = Undefined

NotCalled == [called |-> FALSE, nextStepIndex |-> 0, complete |-> FALSE]

InitReview ==
    /\ workorder \in {[assignee |-> a] : a \in Assignees}
    /\ workflow \in {[steps |-> s] : s \in StepSeqs}
    /\ result \in Results
    /\ reviewOut = NotCalled
    /\ statusOut = Undefined
    /\ IdleSummary
    /\ IdleCalls

CallStepReview ==
    /\ reviewOut' = [called |-> TRUE,
                     nextStepIndex |-> stepReview(workflow.steps, result).nextStepIndex,
                     complete |-> stepReview(workflow.steps, result).complete]
    /\ UNCHANGED <<workorder, workflow, result, statusOut, summaryVars, callVars>>

CallCheckStatus ==
    /\ statusOut' = checkStatus(workorder, workflow, result)
    /\ UNCHANGED <<workorder, workflow, result, reviewOut, summaryVars, callVars>>

NextReview == CallStepReview \/ CallCheckStatus

SpecReview == InitReview /\ [][NextReview]_vars

(* --------------------- progress of a result --------------------------- *)
\* the caller records a step result under a step code that has none yet,
\* before handing the result to updateResult; a result without stepResults
\* gets the mapping with that one entry
AddStepResult(code, status) ==
    /\ result.kind = "object"
    /\ result.stepResults.entries[code] = NoEntry
    /\ result' = [result EXCEPT
                    !.stepResults.kind = IF @ = "undefined" THEN "object" ELSE @,
                    !.stepResults.entries[code] = status]
    /\ UNCHANGED <<workorder, workflow, reviewOut, statusOut, summaryVars, callVars>>

\* the caller marks a recorded step result COMPLETE
CompleteStepResult(code) ==
    /\ result.kind = "object"
    /\ result.stepResults.entries[code] \notin {NoEntry, COMPLETE}
    /\ result' = [result EXCEPT !.stepResults.entries[code] = COMPLETE]
    /\ UNCHANGED <<workorder, workflow, reviewOut, statusOut, summaryVars, callVars>>

NextProgress ==
    \/ CallStepReview
    \/ CallCheckStatus
    \/ \E c \in Codes, st \in {COMPLETE, PendingStatus} : AddStepResult(c, st)
    \/ \E c \in Codes : CompleteStepResult(c)

SpecProgress == InitReview /\ [][NextProgress]_vars

(* ============ getResultByWorkorderId / getWorkorderSummary ============= *)
WorkorderIds == {"w1", "w2"}
WorkflowIds == {"f1", "f2"}
ResultIds == {"r1", "r2"}
Errors == {"e1", "e2"}

WorkorderV(id, wfId) == [t |-> "workorder", id |-> id, workflowId |-> wfId]
WorkflowV(id) == [t |-> "workflow", id |-> id]
ResultV(id, woId) == [t |-> "result", id |-> id, workorderId |-> woId]

ResultVs == {ResultV(i, w) : i \in ResultIds, w \in WorkorderIds}

\* what the results LIST topic may answer: nothing, or an array of results
ListVals == {UndefinedV} \cup {ArrayV(l) : l \in UNION {[1..n -> ResultVs] : n \in 0..MaxResults}}

\* a request published by <topics>.execute(topic, config, payload)
Request(entity, topic, id, topicUid) ==
    [entity |-> entity, topic |-> topic, id |-> id, topicUid |-> topicUid]

readWorkorderRequest(workorderId) == Request("workorders", "read", workorderId, workorderId)
readRequest(workflowId) == Request("workflows", "read", workflowId, workflowId)
listResultsRequest == Request("results", "list", Undefined, Undefined)

\* resultsArray || []
OrEmpty(v) == IF v.t = "array" THEN v.items ELSE <<>>

\* _.find(array, predicate): the first element with result.workorderId === workorderId
RECURSIVE findFrom(_, _, _)
findFrom(items, workorderId, i) ==
    IF i > Len(items) THEN UndefinedV
    ELSE IF items[i].workorderId = workorderId THEN items[i]
    ELSE findFrom(items, workorderId, i + 1)

\* mutant: no "|| null", a miss comes back as undefined
findResult_NoNull(resultsArray, workorderId) ==
    findFrom(OrEmpty(resultsArray), workorderId, 1)

\* the then-callback of getResultByWorkorderId
findResult(resultsArray, workorderId) ==
    LET found == findFrom(OrEmpty(resultsArray), workorderId, 1)
    IN  IF found = UndefinedV THEN NullV ELSE found

\* mutant: the callback runs whatever the outcome of the workorder read
RunsThenCallback_Always(p) == TRUE

\* promise.then(callback): the callback runs only when the promise is fulfilled
RunsThenCallback(p) == p.state = "fulfilled"

WorkflowIdOf(v) == IF v.t = "workorder" THEN v.workflowId ELSE Undefined

\* mutant: a later rejection replaces the one q.all already failed with
allReject_LastWins(all, err) ==
    [state |-> "rejected", value |-> err, pendingCount |-> all.pendingCount]

\* q.all: the first rejection of an input rejects the joined promise; later ones are ignored
allReject(all, err) ==
    IF all.state = "pending"
    THEN [state |-> "rejected", value |-> err, pendingCount |-> all.pendingCount]
    ELSE all

\* q.all: an input was fulfilled; the last one fulfils the joined promise with both values
allFulfil(all, values) ==
    IF all.state # "pending" THEN all
    ELSE IF all.pendingCount = 1
    THEN [state |-> "fulfilled", value |-> ArrayV(values), pendingCount |-> 0]
    ELSE [all EXCEPT !.pendingCount = all.pendingCount - 1]

\* return [workorder, workflow, result]
summaryOf(wo, workorderResult) ==
    ArrayV(<<wo, workorderResult.items[1], workorderResult.items[2]>>)

InitSummary ==
    /\ IdleReview
    /\ IdleSummary
    /\ IdleCalls

getWorkorderSummary(workorderId) ==
    /\ call.op = "none"
    /\ call' = [op |-> "summary", workorderId |-> workorderId]
    /\ bus' = Append(bus, readWorkorderRequest(workorderId))
    /\ woP' = Pending
    /\ outP' = Pending
    /\ UNCHANGED <<wfP, listP, lookupP, allP, queue, settleOrder, reviewVars, callVars>>

getResultByWorkorderId(workorderId) ==
    /\ call.op = "none"
    /\ call' = [op |-> "lookup", workorderId |-> workorderId]
    /\ bus' = Append(bus, listResultsRequest)
    /\ listP' = Pending
    /\ lookupP' = Pending
    /\ outP' = Pending
    /\ UNCHANGED <<woP, wfP, allP, queue, settleOrder, reviewVars, callVars>>

\* the mediator answers the workorder read on its done or error topic
RespondWorkorder ==
    /\ woP.state = "pending"
    /\ \/ \E f \in WorkflowIds : woP' = Fulfilled(WorkorderV(call.workorderId, f))
       \/ \E e \in Errors : woP' = Rejected(ErrorV(e))
    /\ queue' = Append(queue, "onWorkorder")
    /\ UNCHANGED <<call, bus, wfP, listP, lookupP, allP, outP, settleOrder, reviewVars, callVars>>

\* the mediator answers the workflow read
RespondWorkflow ==
    /\ wfP.state = "pending"
    /\ \/ wfP' = Fulfilled(WorkflowV(WorkflowIdOf(woP.value)))
       \/ \E e \in Errors : wfP' = Rejected(ErrorV(e))
    /\ settleOrder' = Append(settleOrder, "workflow")
    /\ queue' = Append(queue, "allOnWorkflow")
    /\ UNCHANGED <<call, bus, woP, listP, lookupP, allP, outP, reviewVars, callVars>>

\* the mediator answers the results listing
RespondList ==
    /\ listP.state = "pending"
    /\ \/ \E l \in ListVals : listP' = Fulfilled(l)
       \/ \E e \in Errors : listP' = Rejected(ErrorV(e))
    /\ queue' = Append(queue, "onList")
    /\ UNCHANGED <<call, bus, woP, wfP, lookupP, allP, outP, settleOrder, reviewVars, callVars>>

\* readWorkorder(workorderId).then(function(workorder) {...})
RunOnWorkorder ==
    /\ queue # <<>> /\ Head(queue) = "onWorkorder"
    /\ queue' = Tail(queue)
    /\ IF RunsThenCallback(woP)
       THEN /\ bus' = bus \o <<readRequest(WorkflowIdOf(woP.value)), listResultsRequest>>
            /\ wfP' = Pending
            /\ listP' = Pending
            /\ lookupP' = Pending
            /\ allP' = [state |-> "pending", value |-> UndefinedV, pendingCount |-> 2]
            /\ UNCHANGED outP
       ELSE /\ outP' = Rejected(woP.value)
            /\ UNCHANGED <<bus, wfP, listP, lookupP, allP>>
    /\ UNCHANGED <<call, woP, settleOrder, reviewVars, callVars>>

\* listResults().then(function(resultsArray) {...})
RunOnList ==
    /\ queue # <<>> /\ Head(queue) = "onList"
    /\ lookupP' = IF listP.state = "fulfilled"
                  THEN Fulfilled(findResult(listP.value, call.workorderId))
                  ELSE Rejected(listP.value)
    /\ IF call.op = "summary"
       THEN /\ queue' = Append(Tail(queue), "allOnLookup")
            /\ settleOrder' = Append(settleOrder, "lookup")
            /\ UNCHANGED outP
       ELSE /\ queue' = Tail(queue)
            /\ outP' = lookupP'
            /\ UNCHANGED settleOrder
    /\ UNCHANGED <<call, bus, woP, wfP, listP, allP, reviewVars, callVars>>

\* q.all's reaction to one settled input
RunAllOn(name, p) ==
    /\ queue # <<>> /\ Head(queue) = name
    /\ allP' = IF p.state = "rejected"
               THEN allReject(allP, p.value)
               ELSE allFulfil(allP, <<wfP.value, lookupP.value>>)
    /\ queue' = IF allP.state = "pending" /\ allP'.state # "pending"
                THEN Append(Tail(queue), "onAll")
                ELSE Tail(queue)
    /\ UNCHANGED <<call, bus, woP, wfP, listP, lookupP, outP, settleOrder, reviewVars, callVars>>

RunAllOnWorkflow == RunAllOn("allOnWorkflow", wfP)

RunAllOnLookup == RunAllOn("allOnLookup", lookupP)

\* q.all(...).then(function(workorderResult) {...}), whose promise the summary becomes
RunOnAll ==
    /\ queue # <<>> /\ Head(queue) = "onAll"
    /\ queue' = Tail(queue)
    /\ outP' = IF allP.state = "fulfilled"
               THEN Fulfilled(summaryOf(woP.value, allP.value))
               ELSE Rejected(allP.value)
    /\ UNCHANGED <<call, bus, woP, wfP, listP, lookupP, allP, settleOrder, reviewVars, callVars>>

NextSummary ==
    \/ \E id \in WorkorderIds : getWorkorderSummary(id)
    \/ \E id \in WorkorderIds : getResultByWorkorderId(id)
    \/ RespondWorkorder
    \/ RespondWorkflow
    \/ RespondList
    \/ RunOnWorkorder
    \/ RunOnList
    \/ RunAllOnWorkflow
    \/ RunAllOnLookup
    \/ RunOnAll

SpecSummary == InitSummary /\ [][NextSummary]_vars

(* ===================== mutating facade calls ========================== *)
\* shortid.generate(): an id that was not generated before
shortidGenerate(n) == ToString(n + 1)

\* the payload.topicUid of each mutating call
createResultTopicUid(resultToCreate, n) == shortidGenerate(n)

\* mutant: the result's own id is used, as update and remove do for workflows
updateResultTopicUid_ById(resultToUpdate, n) == resultToUpdate.id

updateResultTopicUid(resultToUpdate, n) == shortidGenerate(n)

createTopicUid(workflowToCreate, n) == shortidGenerate(n)

updateTopicUid(workflowToUpdate, n) == workflowToUpdate.id

removeTopicUid(workflowToRemove, n) == workflowToRemove.id

\* <topics>.execute(topic, config, payload): publishes the request and returns a
\* promise settled by the done or error topic of that topic and payload.topicUid
Execute(op, entity, topic, aggregate, topicUid, generated) ==
    /\ callCount < MaxCalls
    /\ callCount' = callCount + 1
    /\ nextUid' = IF generated THEN nextUid + 1 ELSE nextUid
    /\ inflight' = inflight \cup {[n |-> callCount + 1, op |-> op, entity |-> entity,
                                   topic |-> topic, aggregate |-> aggregate,
                                   topicUid |-> topicUid]}
    /\ UNCHANGED <<settled, reviewVars, summaryVars>>

createResult(resultToCreate) ==
    Execute("createResult", "results", "create", resultToCreate.id,
            createResultTopicUid(resultToCreate, nextUid), TRUE)

updateResult(resultToUpdate) ==
    Execute("updateResult", "results", "update", resultToUpdate.id,
            updateResultTopicUid(resultToUpdate, nextUid), TRUE)

create(workflowToCreate) ==
    Execute("create", "workflows", "create", workflowToCreate.id,
            createTopicUid(workflowToCreate, nextUid), TRUE)

update(workflowToUpdate) ==
    Execute("update", "workflows", "update", workflowToUpdate.id,
            updateTopicUid(workflowToUpdate, nextUid), FALSE)

remove(workflowToRemove) ==
    Execute("remove", "workflows", "remove", workflowToRemove.id,
            removeTopicUid(workflowToRemove, nextUid), FALSE)

\* the done / error topic a call waits on
Channel(c) == <<c.entity, c.topic, c.topicUid>>

\* the mediator handled the request of call c and published its done or error
\* topic: every pending call subscribed to that topic is settled by it
Notify(c, outcome) ==
    /\ c \in inflight
    /\ LET hit == {d \in inflight : Channel(d) = Channel(c)}
       IN  /\ inflight' = inflight \ hit
           /\ settled' = settled \cup
                  {[n |-> d.n, op |-> d.op, outcome |-> outcome, by |-> c.n] : d \in hit}
    /\ UNCHANGED <<callCount, nextUid, reviewVars, summaryVars>>

\* a result not created yet has no id
NewResults == {[id |-> Undefined, workorderId |-> w] : w \in WorkorderIds}
StoredResults == {[id |-> i] : i \in ResultIds}
NewWorkflows == {[id |-> Undefined]}
StoredWorkflows == {[id |-> i] : i \in WorkflowIds}

InitCalls ==
    /\ IdleReview
    /\ IdleSummary
    /\ IdleCalls

NextCalls ==
    \/ \E r \in NewResults : createResult(r)
    \/ \E r \in StoredResults : updateResult(r)
    \/ \E w \in NewWorkflows : create(w)
    \/ \E w \in StoredWorkflows : update(w)
    \/ \E w \in StoredWorkflows : remove(w)
    \/ \E c \in inflight, o \in {"done", "error"} : Notify(c, o)

SpecCalls == InitCalls /\ [][NextCalls]_vars

(* ======================= stepReview / checkStatus ====================== *)
\* the step at 1-based position i has no entry, or an entry whose status is not COMPLETE
IncompleteAt(i) ==
    \/ result.kind = "null"
    \/ result.stepResults.kind # "object"
    \/ result.stepResults.entries[workflow.steps[i]] = NoEntry
    \/ result.stepResults.entries[workflow.steps[i]] # COMPLETE

IncompletePositions == {i \in 1..Len(workflow.steps) : IncompleteAt(i)}

NotStarted == [called |-> TRUE, nextStepIndex |-> 0, complete |-> FALSE]

\* C1: for every steps sequence, stepReview returns {nextStepIndex: 0, complete: false}
\* whenever result is absent, result.stepResults is absent, or result.stepResults
\* has zero step-result entries.
C1_EmptyResultNotStarted ==
    (reviewOut.called /\ EntryCount(result) = 0) => reviewOut = NotStarted

\* C2: with at least one step-result entry and some incomplete step, stepReview
\* returns complete = false and nextStepIndex = the smallest 0-based position of
\* an incomplete step; every step before it has a COMPLETE entry.
C2_FirstIncompleteStep ==
    (reviewOut.called /\ EntryCount(result) >= 1 /\ IncompletePositions # {}) =>
        /\ reviewOut.complete = FALSE
        /\ reviewOut.nextStepIndex + 1 \in IncompletePositions
        /\ \A j \in 1..reviewOut.nextStepIndex :
               result.stepResults.entries[workflow.steps[j]] = COMPLETE

\* a later step is complete while an earlier one, after a complete first step, is not
C2_Witness ==
    /\ reviewOut.called
    /\ EntryCount(result) >= 1
    /\ Len(workflow.steps) = 3
    /\ IncompletePositions = {2}
    /\ reviewOut.nextStepIndex = 1

\* C3: with a non-empty stepResults and every step COMPLETE, stepReview returns
\* complete = true and nextStepIndex = steps.length (0 for an empty steps sequence).
C3_AllCompleteSentinel ==
    (reviewOut.called /\ EntryCount(result) >= 1 /\ IncompletePositions = {}) =>
        /\ reviewOut.complete = TRUE
        /\ reviewOut.nextStepIndex = Len(workflow.steps)

C3_Witness ==
    /\ reviewOut.called
    /\ EntryCount(result) >= 1
    /\ Len(workflow.steps) >= 2
    /\ IncompletePositions = {}
    /\ reviewOut.complete

\* C4: checkStatus returns COMPLETE whenever stepReview reports complete = true,
\* whatever the assignee.
C4_CompleteBeforeAssignment ==
    (statusOut # Undefined /\ reviewOut.called /\ reviewOut.complete) =>
        /\ reviewOut.nextStepIndex >= Len(workflow.steps) - 1
        /\ statusOut = COMPLETE_DISPLAY

C4_Witness ==
    /\ statusOut = COMPLETE_DISPLAY
    /\ reviewOut.called /\ reviewOut.complete
    /\ Falsy(workorder.assignee)
    /\ Len(workflow.steps) >= 1

\* C5: checkStatus returns UNASSIGNED whenever the assignee is absent/falsy and
\* stepReview reports complete = false, however many steps are COMPLETE.
C5_UnassignedWhenIncomplete ==
    (statusOut # Undefined /\ reviewOut.called /\ ~reviewOut.complete
        /\ Falsy(workorder.assignee)) =>
        statusOut = UNASSIGNED_DISPLAY

\* all steps but the last are COMPLETE and nobody is assigned
C5_Witness ==
    /\ statusOut = UNASSIGNED_DISPLAY
    /\ reviewOut.called /\ ~reviewOut.complete
    /\ Len(workflow.steps) >= 2
    /\ reviewOut.nextStepIndex = Len(workflow.steps) - 1

\* C6: checkStatus returns PENDING whenever the workorder has an assignee, the
\* workflow is not complete and the result records at least one step result.
C6_PendingWhenAssigned ==
    (statusOut # Undefined /\ reviewOut.called /\ ~reviewOut.complete
        /\ ~Falsy(workorder.assignee) /\ EntryCount(result) >= 1) =>
        statusOut = PENDING_DISPLAY

\* a later step has a result while the first step is still incomplete
C6_Witness ==
    /\ statusOut = PENDING_DISPLAY
    /\ reviewOut.called /\ ~reviewOut.complete
    /\ ~Falsy(workorder.assignee)
    /\ EntryCount(result) >= 1
    /\ reviewOut.nextStepIndex = 0
    /\ Len(workflow.steps) >= 2

\* C11: for every steps sequence and every result, stepReview's nextStepIndex
\* lies in 0..steps.length, complete = true implies nextStepIndex = steps.length,
\* and checkStatus never returns NEW.
C11_IndexInRangeNeverNew ==
    /\ reviewOut.called =>
           /\ reviewOut.nextStepIndex \in 0..Len(workflow.steps)
           /\ reviewOut.complete => reviewOut.nextStepIndex = Len(workflow.steps)
    /\ statusOut # NEW_DISPLAY

\* an assigned workorder with every step complete has been reviewed and given a status
C11_Witness ==
    /\ reviewOut.called
    /\ reviewOut.complete
    /\ reviewOut.nextStepIndex = Len(workflow.steps)
    /\ Len(workflow.steps) >= 1
    /\ ~Falsy(workorder.assignee)
    /\ statusOut = COMPLETE_DISPLAY

(* --------------------- progress of a result --------------------------- *)
\* C12: for a fixed workflow, along result updates that only add a step-result
\* entry or change an entry's status to COMPLETE, the nextStepIndex returned
\* by stepReview never decreases from one call to the next, and once
\* checkStatus has returned COMPLETE it returns COMPLETE ever after.
C12_MonotonicProgress ==
    [][/\ (reviewOut.called /\ reviewOut'.called) =>
              reviewOut'.nextStepIndex >= reviewOut.nextStepIndex
       /\ statusOut = COMPLETE_DISPLAY => statusOut' = COMPLETE_DISPLAY]_vars

\* the last review saw two steps left, the result was completed since, and the
\* status asked after that is COMPLETE
C12_Witness ==
    /\ reviewOut.called
    /\ ~reviewOut.complete
    /\ Len(workflow.steps) - reviewOut.nextStepIndex >= 2
    /\ IncompletePositions = {}
    /\ statusOut = COMPLETE_DISPLAY

(* ============ getResultByWorkorderId / getWorkorderSummary ============= *)
ListedItems == IF listP.value.t = "array" THEN listP.value.items ELSE <<>>

MatchingPositions == {i \in 1..Len(ListedItems) : ListedItems[i].workorderId = call.workorderId}

FirstMatchOrNull ==
    IF MatchingPositions = {} THEN NullV
    ELSE ListedItems[CHOOSE i \in MatchingPositions : \A j \in MatchingPositions : i <= j]

\* C7: when the listing succeeds getResultByWorkorderId resolves with the first
\* listed result whose workorderId equals the given id, or with null when none
\* matches (absent or empty list included); it fails only when the listing
\* fails, and then with that failure.
C7_LookupFirstMatchOrNull ==
    /\ (lookupP.state \in {"fulfilled", "rejected"} /\ listP.state = "fulfilled") =>
           lookupP = Fulfilled(FirstMatchOrNull)
    /\ lookupP.state = "rejected" =>
           (listP.state = "rejected" /\ lookupP.value = listP.value)
    /\ (call.op = "lookup" /\ outP.state # "pending") => outP = lookupP

\* two listed results match the id, and the first of them came back
C7_Witness ==
    /\ call.op = "lookup"
    /\ outP.state = "fulfilled"
    /\ Cardinality(MatchingPositions) = 2
    /\ ListedItems[1] # ListedItems[2]
    /\ outP.value = ListedItems[1]

DependentRequests == {i \in 1..Len(bus) : bus[i] # readWorkorderRequest(call.workorderId)}

\* C8: in getWorkorderSummary the workflow read and the results listing are
\* requested only after the workorder read has succeeded; if it fails the
\* summary fails with that same error and neither request is ever issued.
C8_NoDependentsAfterFailedRead ==
    call.op = "summary" =>
        /\ (DependentRequests # {} \/ wfP.state # "none" \/ listP.state # "none") =>
               woP.state = "fulfilled"
        /\ woP.state = "rejected" =>
               /\ outP.state \in {"pending", "rejected"}
               /\ outP.state = "rejected" => outP.value = woP.value
               /\ queue = <<>> => outP.state = "rejected"

C8_Witness ==
    /\ call.op = "summary"
    /\ woP.state = "rejected"
    /\ outP = Rejected(woP.value)
    /\ bus = <<readWorkorderRequest(call.workorderId)>>

InputP(name) == IF name = "workflow" THEN wfP ELSE lookupP

FailedInputs == {i \in 1..Len(settleOrder) : InputP(settleOrder[i]).state = "rejected"}

FirstFailure ==
    InputP(settleOrder[CHOOSE i \in FailedInputs : \A j \in FailedInputs : i <= j]).value

\* C9: after a successful workorder read the workflow read (by
\* workorder.workflowId) and the result lookup are issued together; the summary
\* fails as soon as either fails, with the failure of whichever failed first,
\* and otherwise resolves only after both succeeded, with
\* [workorder, workflow, result] in that order.
C9_JoinOfConcurrentFetches ==
    (call.op = "summary" /\ woP.state = "fulfilled") =>
        /\ (wfP.state # "none" \/ listP.state # "none") =>
               bus = <<readWorkorderRequest(call.workorderId),
                       readRequest(woP.value.workflowId), listResultsRequest>>
        /\ outP.state = "rejected" =>
               (FailedInputs # {} /\ outP.value = FirstFailure)
        /\ (FailedInputs # {} /\ queue = <<>>) => outP.state = "rejected"
        /\ outP.state = "fulfilled" =>
               /\ wfP.state = "fulfilled" /\ lookupP.state = "fulfilled"
               /\ outP.value = ArrayV(<<woP.value, wfP.value, lookupP.value>>)
        /\ (wfP.state = "fulfilled" /\ lookupP.state = "fulfilled" /\ queue = <<>>) =>
               outP.state = "fulfilled"

\* both fetches failed, with different errors, and the summary carries the earlier one
C9_Witness ==
    /\ call.op = "summary"
    /\ wfP.state = "rejected" /\ lookupP.state = "rejected"
    /\ wfP.value # lookupP.value
    /\ settleOrder = <<"lookup", "workflow">>
    /\ outP = Rejected(lookupP.value)

(* ===================== mutating facade calls ========================== *)
GeneratingOps == {"createResult", "updateResult", "create"}

\* C10: every create, update, remove, createResult and updateResult call
\* carries a correlation id generated for that call: two such calls in flight
\* never share one, and a call is settled by its own notification only.
C10_EveryMutationFreshUid ==
    /\ \A c \in inflight : \A d \in inflight : c.n # d.n => c.topicUid # d.topicUid
    /\ \A s \in settled : s.by = s.n

\* C10 as amended: createResult, updateResult and create carry a generated
\* correlation id that no other such call in flight shares, and are settled by
\* their own notification only; update and remove carry the id of the workflow.
C10_GeneratedUidPerCreatingCall ==
    /\ \A c \in inflight : \A d \in inflight :
           (c.op \in GeneratingOps /\ d.op \in GeneratingOps /\ c.n # d.n) =>
               c.topicUid # d.topicUid
    /\ \A s \in settled : s.op \in GeneratingOps => s.by = s.n
    /\ \A c \in inflight : c.op \in {"update", "remove"} => c.topicUid = c.aggregate

\* two updates of the same result are in flight at once
C10_Witness ==
    \E c \in inflight : \E d \in inflight :
        /\ c.n # d.n
        /\ c.op = "updateResult" /\ d.op = "updateResult"
        /\ c.aggregate = d.aggregate
        /\ c.topicUid # d.topicUid

====
